---- MODULE Spec2Model ----
(***************************************************************************)
(* The review queue of GallerySwipeScreen.tsx: the React state of the      *)
(* screen, the AsyncStorage keys it persists, the camera roll it pages     *)
(* through, and every handler as the sequence of its continuations.        *)
(*                                                                         *)
(* A handler is a task: its record holds the values the handler's closure  *)
(* captured and its locals, and pc names the await it is suspended at.     *)
(* One step of a task is the code between two awaits.  AsyncStorage        *)
(* applies operations in the order they are issued, so a read returns and  *)
(* a write stores the value at the step that issues it; the task's next    *)
(* step is the continuation after the promise resolved.                    *)
(*                                                                         *)
(* Photos are named by their 1-based place in the camera roll's order:     *)
(* photo n is "image #n".  A cursor <<k>> stands for the end_cursor after  *)
(* the k-th photo; Null is JavaScript's null/undefined.                    *)
(***************************************************************************)
EXTENDS Integers, Sequences, FiniteSets, TLC

\* ---------------------------------------------------------------- bounds
\* The photos on the device: every count 0..MaxItems is explored.
MaxItems == 3
\* How far the user swipes: with every button of the screen in use (Spec),
\* with swipes and undo (SpecUndo), with swipes alone (SpecSwipe), and with
\* swipes that overlap (SpecRace).
MaxPos == 2
UndoDepth == 3
SwipeDepth == 7
RaceDepth == 2
\* Swipe-release callbacks and alerts waiting to run at once (SpecRace).
MaxPending == 2
\* Handlers in flight at once (SpecRace).
MaxTasks == 2
\* MAX_QUEUE_PERSIST and COUNT_PAGE_SIZE of the source, 120 and 1000 there.
MAX_QUEUE_PERSIST == 4
COUNT_PAGE_SIZE == 2
\* The staleness window of the total count, in ticks of now, and how long the
\* clock runs.
ONE_DAY == 2
MaxNow == 4

\* PAGE_SIZE and MIN_QUEUE_BEFORE_REFILL of the source, 80 and 20 there, in
\* two scalings: pages of one photo, where a camera roll of three has three
\* pages, and pages of three with a refill below two.
Pagings == {[page |-> 1, min |-> 1], [page |-> 3, min |-> 2]}

\* ------------------------------------------------------------- constants
HISTORY_LIMIT == 5

Null == <<>>
Some(x) == <<x>>
Min(a, b) == IF a < b THEN a ELSE b
Max(a, b) == IF a > b THEN a ELSE b

\* ---------------------------------------------------------- pure helpers
\* arr.filter((u) => !trash.has(u))
Filter(s, tr) == SelectSeq(s, LAMBDA u : u \notin tr)

\* arr.slice(from) with a 0-based start
SliceFrom(s, from) == SubSeq(s, from + 1, Len(s))

\* arr.slice(0, n)
SliceTo(s, n) == SubSeq(s, 1, Min(n, Len(s)))

\* the seen-set loop of refillQueueIfNeeded: first occurrence wins
Dedupe(s) ==
  LET F[i \in 0..Len(s)] ==
        IF i = 0 THEN <<>>
        ELSE IF \E j \in 1..(i - 1) : s[j] = s[i] THEN F[i - 1]
        ELSE Append(F[i - 1], s[i])
  IN F[Len(s)]

\* getNumber(key, fallback): an absent key reads as the fallback
GetNumber(k, fallback) == IF k = Null THEN fallback ELSE k[1]

\* getStringArray(key): an absent key reads as []
GetStringArray(k) == IF k = Null THEN <<>> ELSE k[1]

\* A faulty pushHistory that keeps one entry too many: C10 must not survive it.
PushHistoryOneMore(prev, a) == SliceTo(<<a>> \o prev, HISTORY_LIMIT + 1)

\* [a, ...prev].slice(0, HISTORY_LIMIT)
PushHistory(prev, a) == SliceTo(<<a>> \o prev, HISTORY_LIMIT)

Reverse(s) == [i \in 1..Len(s) |-> s[Len(s) + 1 - i]]

\* ------------------------------------------------------------------ state
VARIABLES
  total,        \* photos in the camera roll
  paging,       \* the scaling of PAGE_SIZE and MIN_QUEUE_BEFORE_REFILL
  now,          \* Date.now()
  deleted,      \* the photos CameraRoll.deletePhotos removed from the device
  mounted,      \* the screen is on the navigation stack
  trashView,    \* TrashScreen, when it is on top of the stack
  kTrash,       \* gallery_trash_uris_v1
  kPos,         \* gallery_progress_global_pos_v1   (Null: key absent)
  kQueue,       \* gallery_progress_queue_v1        (Null: key absent)
  kAfter,       \* gallery_progress_after_cursor_v1 (Null: key absent)
  kTotal,       \* gallery_total_photos_cached_v1
  kTotalTs,     \* gallery_total_photos_cached_ts_v1
  busy, pos, queue, afterCursor, trashCount, history, totalCount,
  err,          \* the message of the error screen, or Null
  refillingRef,
  tasks,        \* the queue handlers in flight, oldest first
  pending,      \* swipe animations and alerts whose callback has not run yet
  count,        \* loadTotalCountFromCacheOrCompute in flight
  jumpSeen,     \* totalCount as the memoized jumpToNth closed over it
  notice,       \* the alert jumpToNth put up for a target it refused
  \* observers: they record what happened and feed nothing back
  base, pushed, \* history when it was last cleared or popped, and the pushes
                \* since, oldest first; each entry with pos as its handler saw it
  walk,         \* the photos that became current since a fresh load
  scenario,     \* how far the run has followed Script, or Off
  ended         \* the handler that ended last, if it failed, or the kill

PAGE_SIZE == paging.page
MIN_QUEUE_BEFORE_REFILL == paging.min

\* what no handler of this screen writes
env == <<total, paging, now, deleted, mounted, trashView>>
progress == <<kPos, kQueue, kAfter>>
cache == <<kTotal, kTotalTs>>
qstate == <<pos, queue, afterCursor>>
hist == <<history, base, pushed>>
flags == <<busy, jumpSeen>>
obs == <<walk, scenario, notice, ended>>
vars == <<total, paging, now, deleted, mounted, trashView, kTrash, kPos, kQueue, kAfter, kTotal, kTotalTs,
          busy, pos, queue, afterCursor, trashCount, history, totalCount,
          err, refillingRef, tasks, pending, count, jumpSeen, notice,
          base, pushed, walk, scenario, ended>>

\* -------------------------------------------------------------- camera roll
\* CameraRoll.getPhotos({first, after}): the page after the cursor
GetPhotos(first, after) ==
  LET start == IF after = Null THEN 0 ELSE after[1]
      rest == SelectSeq([x \in 1..total |-> x],
                        LAMBDA x : x > start /\ x \notin deleted)
      n == Min(first, Len(rest))
  IN [edges |-> SubSeq(rest, 1, n),
      has_next_page |-> n < Len(rest),
      end_cursor |-> IF n = 0 THEN Null ELSE Some(rest[n])]

\* res.page_info?.has_next_page ? res.page_info?.end_cursor ?? null : null
NextAfter(res) == IF res.has_next_page THEN res.end_cursor ELSE Null

\* lines 168-185 of refillQueueIfNeeded, once the trash set and the page are in
RefillMerge(currentQueue, currentAfter, trash) ==
  LET res == GetPhotos(PAGE_SIZE, currentAfter)
      newUris == Filter(res.edges, trash)
  IN [q |-> Dedupe(currentQueue \o newUris), after |-> NextAfter(res)]

\* queue && queue.length > 0 ? queue[0] : null
CurrentUri(qu) == IF qu # Null /\ Len(qu[1]) > 0 THEN Some(qu[1][1]) ELSE Null

\* TrashScreen off the stack
NoTrashView ==
  [open |-> FALSE, pc |-> "none", items |-> {}, busy |-> FALSE, uris |-> {},
   all |-> FALSE, tr |-> {}]

\* this screen is the one the user sees and touches
Front == mounted /\ ~trashView.open

\* ------------------------------------------------------------------ tasks
NoText == [lit |-> "none", v |-> 0]

NoTask ==
  [kind |-> "none", pc |-> "none", via |-> "none", uri |-> 0, npos |-> 0,
   q |-> <<>>, after |-> Null, tr |-> {}, consumed |-> 0, target |-> 0,
   entry |-> "none", hp |-> 0, pos0 |-> 0, pre |-> Null, old |-> Null,
   rin |-> Null, rn |-> 0]

\* The scenario of the specification's section 8, handler by handler
Script == <<"mount", "skip", "trash", "undo", "skip", "skip">>
Off == Len(Script) + 1
Follow(op) ==
  IF scenario < Len(Script) /\ Script[scenario + 1] = op THEN scenario + 1 ELSE Off

\* no handler has failed since the last one that ended well
NoEnd ==
  [kind |-> "none", cause |-> "none", pre |-> Null, post |-> Null, was |-> Null]

\* A walk begins when loadInitial finishes at position 0 with an empty trash,
\* and ends with the first handler that is no swipe.
NoWalk == [fresh |-> FALSE, shown |-> {}, again |-> FALSE]

\* the walk after a handler left qu on the screen: its current photo is shown
Show(w, qu) ==
  IF ~w.fresh \/ CurrentUri(qu) = Null THEN w
  ELSE LET x == CurrentUri(qu)[1]
       IN [w EXCEPT !.shown = @ \cup {x}, !.again = @ \/ x \in w.shown]

\* the history with the position of each entry: the pushes, newest first,
\* in front of what was left at the last pop
Annotated == SliceTo(Reverse(pushed) \o base, HISTORY_LIMIT)

Replace(i, t) == [tasks EXCEPT ![i] = t]
Remove(i) == SubSeq(tasks, 1, i - 1) \o SubSeq(tasks, i + 1, Len(tasks))

\* the values a handler created by the current render closes over
Closure ==
  [busy |-> busy, pos |-> pos, queue |-> queue, afterCursor |-> afterCursor,
   history |-> history, totalCount |-> totalCount]

\* A faulty done that does not look at the cursor: C13 must not survive it.
DoneWithoutCursor == queue # Null /\ CurrentUri(queue) = Null

\* const done = !currentUri && !afterCursor, on a screen that has a queue
Done == queue # Null /\ CurrentUri(queue) = Null /\ afterCursor = Null

Quiet == tasks = <<>> /\ pending = <<>>

\* setBusy(b); the render that follows a change of busy makes jumpToNth anew,
\* with the totalCount of that render
SetBusy(b) ==
  /\ busy' = b
  /\ jumpSeen' = IF b # busy THEN totalCount ELSE jumpSeen

\* A faulty setHistory([]) that leaves the history as it is: C36 must not
\* survive it.
ClearHistoryKeeps == UNCHANGED <<history, base, pushed>>

\* setHistory([])
ClearHistory == history' = <<>> /\ base' = <<>> /\ pushed' = <<>>

\* ---------------------------------------------------------- shared pieces
\* A faulty persistProgress that leaves the cursor key alone: C18 must not
\* survive it.
PersistProgressNoCursor(nextPos, nextQueue, nextAfter) ==
  /\ kPos' = Some(nextPos)
  /\ kQueue' = Some(SliceTo(nextQueue, MAX_QUEUE_PERSIST))
  /\ kAfter' = kAfter

\* persistProgress: the three keys of one Promise.all
PersistProgress(nextPos, nextQueue, nextAfter) ==
  /\ kPos' = Some(nextPos)
  /\ kQueue' = Some(SliceTo(nextQueue, MAX_QUEUE_PERSIST))
  /\ kAfter' = nextAfter

\* A faulty commitState that leaves pos alone: C4 must not survive it.
CommitStateKeepsPos(nextPos, nextQueue, nextAfter) ==
  /\ pos' = pos
  /\ queue' = Some(nextQueue)
  /\ afterCursor' = nextAfter
  /\ PersistProgress(pos, nextQueue, nextAfter)

\* commitState, and lines 218-223 of loadInitial, which do the same
CommitState(nextPos, nextQueue, nextAfter) ==
  /\ pos' = nextPos
  /\ queue' = Some(nextQueue)
  /\ afterCursor' = nextAfter
  /\ PersistProgress(nextPos, nextQueue, nextAfter)

\* A faulty handler that moves the position before the page is in: C15 must
\* not survive it.
CallRefillCommitsFirst(ts, i, nextPos, q, after) ==
  IF Len(q) >= MIN_QUEUE_BEFORE_REFILL
  THEN /\ CommitState(nextPos, q, after)
       /\ tasks' = [ts EXCEPT ![i].pc = "persist", ![i].npos = 0,
                              ![i].q = <<>>, ![i].after = Null, ![i].tr = {},
                              ![i].consumed = 0, ![i].pre = Null,
                              ![i].old = Some(progress),
                              ![i].rin = Some(<<q, after>>), ![i].rn = 0]
  ELSE /\ tasks' = [ts EXCEPT ![i].pc = "refillTrash", ![i].npos = nextPos,
                              ![i].q = q, ![i].after = after,
                              ![i].tr = kTrash, ![i].consumed = 0,
                              ![i].rin = Some(<<q, after>>), ![i].rn = 0]
       /\ pos' = nextPos
       /\ UNCHANGED <<queue, afterCursor, progress>>

\* A handler calls refillQueueIfNeeded(q, after) and commits what it returns.
\* A long enough queue comes back as it is and the commit follows at once;
\* otherwise the handler waits for getTrashSet.  ts is tasks with the task in
\* place i; rin keeps the arguments of the call and rn counts its calls of
\* getPhotos.
CallRefill(ts, i, nextPos, q, after) ==
  IF Len(q) >= MIN_QUEUE_BEFORE_REFILL
  THEN /\ CommitState(nextPos, q, after)
       /\ tasks' = [ts EXCEPT ![i].pc = "persist", ![i].npos = 0,
                              ![i].q = <<>>, ![i].after = Null, ![i].tr = {},
                              ![i].consumed = 0, ![i].pre = Null,
                              ![i].old = Some(progress),
                              ![i].rin = Some(<<q, after>>), ![i].rn = 0]
  ELSE /\ tasks' = [ts EXCEPT ![i].pc = "refillTrash", ![i].npos = nextPos,
                              ![i].q = q, ![i].after = after,
                              ![i].tr = kTrash, ![i].consumed = 0,
                              ![i].rin = Some(<<q, after>>), ![i].rn = 0]
       /\ UNCHANGED <<qstate, progress>>

\* refillQueueIfNeeded after getTrashSet: ask the camera roll for a page
RefillGotTrash(i) ==
  /\ tasks[i].pc = "refillTrash"
  /\ tasks' = Replace(i, [tasks[i] EXCEPT !.pc = "refillFetch",
                                          !.rn = tasks[i].rn + 1])
  /\ UNCHANGED <<env, err, kTrash, progress, cache, flags, qstate, trashCount, hist,
                 totalCount, refillingRef, pending, count, obs>>

\* A faulty refillQueueIfNeeded that fetches on while the queue is short and
\* pages are left: C26 must not survive it.
RefillFetchedAgain(i) ==
  /\ tasks[i].pc = "refillFetch"
  /\ LET t == tasks[i]
         r == RefillMerge(t.q, t.after, t.tr)
     IN IF Len(r.q) < MIN_QUEUE_BEFORE_REFILL /\ r.after # Null
        THEN /\ tasks' = Replace(i, [t EXCEPT !.q = r.q, !.after = r.after,
                                              !.rn = t.rn + 1])
             /\ UNCHANGED <<qstate, progress>>
        ELSE /\ CommitState(t.npos, r.q, r.after)
             /\ tasks' = Replace(i, [t EXCEPT !.pc = "persist", !.npos = 0,
                                              !.q = <<>>, !.after = Null,
                                              !.tr = {}, !.pre = Null,
                                              !.old = Some(progress)])
  /\ UNCHANGED <<env, err, kTrash, cache, flags, trashCount, hist, totalCount,
                 refillingRef, pending, count, obs>>

\* refillQueueIfNeeded after getPhotos: filter, merge, dedupe; the caller commits
RefillFetched(i) ==
  /\ tasks[i].pc = "refillFetch"
  /\ LET t == tasks[i]
         r == RefillMerge(t.q, t.after, t.tr)
     IN /\ CommitState(t.npos, r.q, r.after)
        /\ tasks' = Replace(i, [t EXCEPT !.pc = "persist", !.npos = 0,
                                         !.q = <<>>, !.after = Null, !.tr = {},
                                         !.pre = Null, !.old = Some(progress)])
  /\ UNCHANGED <<env, err, kTrash, cache, flags, trashCount, hist, totalCount,
                 refillingRef, pending, count, obs>>

\* ---------------------------------------------------------- loadInitial
\* loadInitial up to its first await: the four reads of Promise.all
LoadTask(via) ==
  [NoTask EXCEPT !.kind = "load", !.pc = "lRead", !.via = via,
                 !.tr = kTrash, !.npos = GetNumber(kPos, 0),
                 !.q = GetStringArray(kQueue), !.after = kAfter,
                 !.pre = Some(qstate), !.old = Some(progress)]

\* loadInitial as a function of what it reads: the position, buffer and cursor
\* it commits from the progress record rec and the trash set tr
LoadOutcome(rec, tr) ==
  LET saved == Filter(GetStringArray(rec[2]), tr)
      res == GetPhotos(PAGE_SIZE, Null)
      q == IF Len(saved) = 0 THEN Filter(res.edges, tr) ELSE saved
      after == IF Len(saved) = 0 THEN NextAfter(res) ELSE rec[3]
      refilled == IF Len(q) >= MIN_QUEUE_BEFORE_REFILL
                  THEN [q |-> q, after |-> after]
                  ELSE RefillMerge(q, after, tr)
  IN <<GetNumber(rec[1], 0), Some(refilled.q), refilled.after>>

\* A faulty loadInitial that shows the saved position and buffer before the
\* page is in: C21 must not survive it.
LoadReadShowsSaved(i) ==
  /\ tasks[i].pc = "lRead"
  /\ LET t == tasks[i]
         q == Filter(t.q, t.tr)
     IN /\ trashCount' = Cardinality(t.tr)
        /\ IF Len(q) = 0
           THEN /\ tasks' = Replace(i, [t EXCEPT !.pc = "lFetch", !.q = <<>>])
                /\ pos' = t.npos /\ queue' = Some(q)
                /\ UNCHANGED <<afterCursor, progress>>
           ELSE CallRefill(tasks, i, t.npos, q, t.after)
  /\ UNCHANGED <<env, err, kTrash, cache, flags, hist, totalCount, refillingRef,
                 pending, count, obs>>

\* loadInitial with the saved values in: filter the saved queue, then fetch
\* the first page if nothing is left, else top up
LoadRead(i) ==
  /\ tasks[i].pc = "lRead"
  /\ LET t == tasks[i]
         q == Filter(t.q, t.tr)
     IN /\ trashCount' = Cardinality(t.tr)
        /\ IF Len(q) = 0
           THEN /\ tasks' = Replace(i, [t EXCEPT !.pc = "lFetch", !.q = <<>>])
                /\ UNCHANGED <<qstate, progress>>
           ELSE CallRefill(tasks, i, t.npos, q, t.after)
  /\ UNCHANGED <<env, err, kTrash, cache, flags, hist, totalCount, refillingRef,
                 pending, count, obs>>

\* loadInitial with the first page in
LoadFetched(i) ==
  /\ tasks[i].pc = "lFetch"
  /\ LET t == tasks[i]
         res == GetPhotos(PAGE_SIZE, Null)
     IN CallRefill(tasks, i, t.npos, Filter(res.edges, t.tr), NextAfter(res))
  /\ UNCHANGED <<env, err, kTrash, cache, flags, trashCount, hist, totalCount,
                 refillingRef, pending, count, obs>>

\* loadTotalCountFromCacheOrCompute has not been called; pre is what the cache
\* keys and the screen hold when countAllPhotos is called
NoCount ==
  [pc |-> "none", cached |-> 0, ts |-> 0, sum |-> 0, after |-> Null,
   pre |-> Null]

\* loadTotalCountFromCacheOrCompute up to its first await
CountTask == [NoCount EXCEPT !.pc = "cached", !.cached = GetNumber(kTotal, 0)]

\* loadInitial after persistProgress: setErr(null), setHistory([]); then the
\* caller goes on: the mount effect starts the total count, restart's finally
\* releases busy
LoadDone(i) ==
  /\ tasks[i].pc = "persist" /\ tasks[i].kind = "load"
  /\ err' = Null
  /\ ClearHistory
  /\ IF tasks[i].via = "restart" THEN SetBusy(FALSE) ELSE UNCHANGED flags
  /\ count' = IF tasks[i].via = "mount" THEN CountTask ELSE count
  /\ walk' = IF kTrash = {} /\ pos = 0
              THEN Show([NoWalk EXCEPT !.fresh = TRUE], queue)
              ELSE NoWalk
  /\ scenario' = Follow(tasks[i].via)
  /\ ended' = NoEnd
  /\ tasks' = Remove(i)
  /\ UNCHANGED <<env, kTrash, progress, cache, qstate, trashCount, totalCount,
                 refillingRef, pending, notice>>

\* ------------------------------------------------------------ swipes
\* The view that takes the swipe is rendered for a current photo only, and
\* onMoveShouldSetPanResponder refuses the gesture while busy.
CanSwipe == Front /\ err = Null /\ queue # Null /\ CurrentUri(queue) # Null /\ ~busy

\* onPanResponderRelease past the threshold: the animation starts, and its end
\* will call skipCurrent or trashCurrent of the render that made this
\* responder.  The user swipes while pos and the pushes of the run are below
\* depth.
Release(kind, depth) ==
  /\ CanSwipe
  /\ pos < depth /\ Len(pushed) + Len(pending) < depth
  /\ pending' = Append(pending,
                  [kind |-> kind, busy |-> busy, pos |-> pos, queue |-> queue,
                   afterCursor |-> afterCursor, text |-> NoText,
                   known |-> Null])
  /\ notice' = "none"
  /\ UNCHANGED <<env, err, kTrash, progress, cache, flags, qstate, trashCount, hist,
                 totalCount, refillingRef, tasks, count, walk, scenario, ended>>

Drop(j) == SubSeq(pending, 1, j - 1) \o SubSeq(pending, j + 1, Len(pending))

\* both swipe handlers return at once when busy or without a current photo
SwipeRefused(c) == c.busy \/ CurrentUri(c.queue) = Null

\* skipCurrent, from its closure c, up to its first await
SkipCurrent(c) ==
  LET uri == c.queue[1][1]
      t == [NoTask EXCEPT !.kind = "skip", !.uri = uri, !.pre = Some(qstate)]
  IN /\ SetBusy(TRUE)
     /\ history' = PushHistory(history, [kind |-> "skip", uri |-> uri])
     /\ pushed' = Append(pushed, [kind |-> "skip", uri |-> uri, pos |-> c.pos])
     /\ CallRefill(Append(tasks, t), Len(tasks) + 1, c.pos + 1,
                   Tail(c.queue[1]), c.afterCursor)
     /\ UNCHANGED <<kTrash, base>>

\* trashCurrent, from its closure c, up to its first await: the read of addToTrash
TrashCurrent(c) ==
  LET uri == c.queue[1][1]
      t == [NoTask EXCEPT !.kind = "trash", !.pc = "addRead", !.uri = uri,
                          !.npos = c.pos + 1,
                          !.q = Tail(c.queue[1]), !.after = c.afterCursor,
                          !.tr = kTrash, !.pre = Some(qstate)]
  IN /\ SetBusy(TRUE)
     /\ history' = PushHistory(history, [kind |-> "trash", uri |-> uri])
     /\ pushed' = Append(pushed, [kind |-> "trash", uri |-> uri, pos |-> c.pos])
     /\ tasks' = Append(tasks, t)
     /\ UNCHANGED <<kTrash, qstate, progress, base>>

\* the end of a swipe animation calls the handler
AnimationEnd(j) ==
  /\ pending[j].kind \in {"skip", "trash"}
  /\ Len(tasks) < MaxTasks
  /\ pending' = Drop(j)
  /\ IF SwipeRefused(pending[j])
     THEN UNCHANGED <<kTrash, progress, flags, qstate, hist, tasks>>
     ELSE IF pending[j].kind = "skip"
          THEN SkipCurrent(pending[j])
          ELSE TrashCurrent(pending[j])
  /\ UNCHANGED <<env, err, cache, trashCount, totalCount, refillingRef, count, obs>>

\* A faulty addToTrash that takes the photo off the device as well: C25 must
\* not survive it.
TrashAddReadDeletes(i) ==
  /\ tasks[i].pc = "addRead"
  /\ kTrash' = tasks[i].tr \cup {tasks[i].uri}
  /\ deleted' = deleted \cup {tasks[i].uri}
  /\ tasks' = Replace(i, [tasks[i] EXCEPT !.pc = "addWritten", !.tr = {}])
  /\ UNCHANGED <<total, paging, now, mounted, trashView, err, progress, cache,
                 flags, qstate, trashCount, hist, totalCount, refillingRef,
                 pending, count, obs>>

\* A faulty addToTrash that writes a set of the one uri: C33 must not
\* survive it.
TrashAddReadAlone(i) ==
  /\ tasks[i].pc = "addRead"
  /\ kTrash' = {tasks[i].uri}
  /\ tasks' = Replace(i, [tasks[i] EXCEPT !.pc = "addWritten", !.tr = {}])
  /\ UNCHANGED <<env, err, progress, cache, flags, qstate, trashCount, hist,
                 totalCount, refillingRef, pending, count, obs>>

\* addToTrash after its read: s.add(uri), setTrashSet(s)
TrashAddRead(i) ==
  /\ tasks[i].pc = "addRead"
  /\ kTrash' = tasks[i].tr \cup {tasks[i].uri}
  /\ tasks' = Replace(i, [tasks[i] EXCEPT !.pc = "addWritten", !.tr = {}])
  /\ UNCHANGED <<env, err, progress, cache, flags, qstate, trashCount, hist,
                 totalCount, refillingRef, pending, count, obs>>

\* trashCurrent after addToTrash: getTrashSet for the count
TrashAddWritten(i) ==
  /\ tasks[i].pc = "addWritten"
  /\ tasks' = Replace(i, [tasks[i] EXCEPT !.pc = "tCount", !.tr = kTrash])
  /\ UNCHANGED <<env, err, kTrash, progress, cache, flags, qstate, trashCount, hist,
                 totalCount, refillingRef, pending, count, obs>>

\* trashCurrent after getTrashSet: setTrashCount, then refill and commit
TrashCounted(i) ==
  /\ tasks[i].pc = "tCount"
  /\ trashCount' = Cardinality(tasks[i].tr)
  /\ CallRefill(tasks, i, tasks[i].npos, tasks[i].q, tasks[i].after)
  /\ UNCHANGED <<env, err, kTrash, cache, flags, hist, totalCount, refillingRef,
                 pending, count, obs>>

\* skipCurrent / trashCurrent after commitState: finally setBusy(false)
SwipeDone(i) ==
  /\ tasks[i].pc = "persist" /\ tasks[i].kind \in {"skip", "trash"}
  /\ SetBusy(FALSE)
  /\ walk' = Show(walk, queue)
  /\ scenario' = Follow(tasks[i].kind)
  /\ ended' = NoEnd
  /\ tasks' = Remove(i)
  /\ UNCHANGED <<env, err, kTrash, progress, cache, qstate, trashCount, hist,
                 totalCount, refillingRef, pending, count, notice>>

\* ------------------------------------------------------------ undo
\* A faulty Undo button that stays enabled while busy, on an undoLast without
\* its first guard: C31 must not survive it.
CanUndoWhileBusy == Front /\ err = Null /\ queue # Null /\ history # <<>>

\* the Undo button of the main and of the done screen: disabled while busy or
\* without history
CanUndo == Front /\ err = Null /\ queue # Null /\ ~busy /\ history # <<>>

\* A faulty undoLast that does not put the uri back: C5 must not survive it.
UndoCommitNoReinsert(ts, i, c, uri) ==
  /\ history' = SliceFrom(history, 1)
  /\ base' = SliceFrom(Annotated, 1) /\ pushed' = <<>>
  /\ CommitState(Max(0, c.pos - 1),
                 IF c.queue # Null THEN c.queue[1] ELSE <<>>,
                 c.afterCursor)
  /\ tasks' = [ts EXCEPT ![i].pc = "persist", ![i].npos = 0, ![i].q = <<>>,
                         ![i].after = Null, ![i].tr = {}, ![i].pre = Null,
                         ![i].old = Some(progress)]

\* A faulty undoLast that puts the uri back behind the buffer: C30 must not
\* survive it.
UndoCommitAtBack(ts, i, c, uri) ==
  /\ history' = SliceFrom(history, 1)
  /\ base' = SliceFrom(Annotated, 1) /\ pushed' = <<>>
  /\ CommitState(Max(0, c.pos - 1),
                 IF c.queue # Null THEN c.queue[1] \o <<uri>> ELSE <<uri>>,
                 c.afterCursor)
  /\ tasks' = [ts EXCEPT ![i].pc = "persist", ![i].npos = 0, ![i].q = <<>>,
                         ![i].after = Null, ![i].tr = {}, ![i].pre = Null,
                         ![i].old = Some(progress)]

\* undoLast after the trash set is settled: rewind, put the uri back in
\* front, pop the history, commit
UndoCommit(ts, i, c, uri) ==
  /\ history' = SliceFrom(history, 1)
  /\ base' = SliceFrom(Annotated, 1) /\ pushed' = <<>>
  /\ CommitState(Max(0, c.pos - 1),
                 IF c.queue # Null THEN <<uri>> \o c.queue[1] ELSE <<uri>>,
                 c.afterCursor)
  /\ tasks' = [ts EXCEPT ![i].pc = "persist", ![i].npos = 0, ![i].q = <<>>,
                         ![i].after = Null, ![i].tr = {}, ![i].pre = Null,
                         ![i].old = Some(progress)]

\* undoLast from the current render, up to its first await
UndoLast ==
  /\ CanUndo
  /\ Len(tasks) < MaxTasks
  /\ LET last == history[1]
         t == [NoTask EXCEPT !.kind = "undo", !.uri = last.uri, !.pos0 = pos,
                             !.entry = last.kind, !.hp = Annotated[1].pos,
                             !.pre = Some(qstate)]
     IN /\ SetBusy(TRUE)
        /\ IF last.kind = "trash"
           THEN /\ tasks' = Append(tasks,
                      [t EXCEPT !.pc = "remRead", !.tr = kTrash, !.npos = pos,
                                !.q = IF queue = Null THEN <<>> ELSE queue[1],
                                !.after = afterCursor])
                /\ UNCHANGED <<qstate, progress, hist>>
           ELSE UndoCommit(Append(tasks, t), Len(tasks) + 1, Closure, last.uri)
  /\ walk' = NoWalk
  /\ notice' = "none"
  /\ UNCHANGED <<env, err, kTrash, cache, trashCount, totalCount, refillingRef,
                 pending, count, scenario, ended>>

\* A touch on the Undo button while it is disabled, or a call of undoLast
\* that returns at one of its two guards: nothing is set and nothing awaited.
UndoRefused ==
  /\ Front /\ err = Null /\ queue # Null
  /\ busy \/ history = <<>>
  /\ UNCHANGED vars

\* removeFromTrash after its read: s.delete(uri), setTrashSet(s)
UndoRemRead(i) ==
  /\ tasks[i].pc = "remRead"
  /\ kTrash' = tasks[i].tr \ {tasks[i].uri}
  /\ tasks' = Replace(i, [tasks[i] EXCEPT !.pc = "remWritten", !.tr = {}])
  /\ UNCHANGED <<env, err, progress, cache, flags, qstate, trashCount, hist,
                 totalCount, refillingRef, pending, count, obs>>

\* undoLast after removeFromTrash: getTrashSet for the count
UndoRemWritten(i) ==
  /\ tasks[i].pc = "remWritten"
  /\ tasks' = Replace(i, [tasks[i] EXCEPT !.pc = "uCount", !.tr = kTrash])
  /\ UNCHANGED <<env, err, kTrash, progress, cache, flags, qstate, trashCount, hist,
                 totalCount, refillingRef, pending, count, obs>>

\* undoLast after getTrashSet: setTrashCount, then the commit
UndoCounted(i) ==
  /\ tasks[i].pc = "uCount"
  /\ trashCount' = Cardinality(tasks[i].tr)
  /\ LET t == tasks[i]
     IN UndoCommit(tasks, i,
                   [pos |-> t.npos, queue |-> Some(t.q), afterCursor |-> t.after],
                   t.uri)
  /\ UNCHANGED <<env, err, kTrash, cache, flags, totalCount, refillingRef, pending,
                 count, obs>>

\* undoLast after commitState: finally setBusy(false)
UndoDone(i) ==
  /\ tasks[i].pc = "persist" /\ tasks[i].kind = "undo"
  /\ SetBusy(FALSE)
  /\ scenario' = Follow("undo")
  /\ ended' = NoEnd
  /\ tasks' = Remove(i)
  /\ UNCHANGED <<env, err, kTrash, progress, cache, qstate, trashCount, hist,
                 totalCount, refillingRef, pending, count, walk, notice>>

\* ------------------------------------------------------------ jump
\* What is in the jump box, by the kind of literal: Number() of "abc" is NaN,
\* of "1.5" a fraction
JumpTexts ==
  {[lit |-> "nan", v |-> 0], [lit |-> "frac", v |-> 1]}
    \cup {[lit |-> "int", v |-> n] : n \in 0..(MaxItems + 1)}

\* Number(raw) of jumpToNth
Number(text) ==
  [finite |-> text.lit # "nan", integer |-> text.lit = "int", value |-> text.v]

\* the first check of jumpToNth, which ends in the alert "Invalid number"
JumpInvalid(text) ==
  LET n == Number(text) IN ~n.finite \/ ~n.integer

\* the second check, which ends in the alert "Out of range"
JumpOutOfRange(text, seen) ==
  LET n == Number(text) IN n.value < 1 \/ (seen # Null /\ n.value > seen[1])

\* the Restart and Jump buttons of the main screen: disabled while busy
CanPress == Front /\ err = Null /\ queue # Null /\ ~Done /\ ~busy

\* onChangeText of the jump box: jumpText is a dependency of jumpToNth, so
\* the render that follows makes it anew.  The text itself is not kept: the
\* box holds whatever was typed last, and Continue takes any text.
TypeJump ==
  /\ CanPress
  /\ jumpSeen # totalCount
  /\ jumpSeen' = totalCount
  /\ notice' = "none"
  /\ UNCHANGED <<env, err, kTrash, progress, cache, busy, qstate, trashCount, hist,
                 totalCount, refillingRef, tasks, pending, count, walk,
                 scenario, ended>>

\* the Jump button, then Continue: jumpToNth validates, then asks; the alert's
\* button closes over this render
JumpToNth(text) ==
  /\ CanPress
  /\ IF JumpInvalid(text)
     THEN notice' = "Invalid number" /\ UNCHANGED pending
     ELSE IF JumpOutOfRange(text, jumpSeen)
          THEN notice' = "Out of range" /\ UNCHANGED pending
          ELSE /\ notice' = "none"
               /\ pending' = Append(pending,
                      [kind |-> "jump", busy |-> busy, pos |-> 0,
                       queue |-> Null, afterCursor |-> Null, text |-> text,
                       known |-> totalCount])
  /\ UNCHANGED <<env, err, kTrash, progress, cache, flags, qstate, trashCount, hist,
                 totalCount, refillingRef, tasks, count, walk, scenario, ended>>

\* Cancel on either alert
CancelAlert(j) ==
  /\ pending[j].kind \in {"jump", "restart"}
  /\ pending' = Drop(j)
  /\ UNCHANGED <<env, err, kTrash, progress, cache, flags, qstate, trashCount, hist,
                 totalCount, refillingRef, tasks, count, obs>>

\* the Jump button of the alert, up to the first await of rebuildStateAtPos
ConfirmJump(j) ==
  /\ pending[j].kind = "jump"
  /\ Len(tasks) < MaxTasks
  /\ pending' = Drop(j)
  /\ IF pending[j].busy
     THEN UNCHANGED <<flags, hist, tasks, walk>>
     ELSE /\ SetBusy(TRUE)
          /\ ClearHistory
          /\ tasks' = Append(tasks,
                 [NoTask EXCEPT !.kind = "jump", !.pc = "jTrash",
                                !.target = Number(pending[j].text).value - 1,
                                !.tr = kTrash, !.pre = Some(qstate)])
          /\ walk' = NoWalk
  /\ UNCHANGED <<env, err, kTrash, progress, cache, qstate, trashCount, totalCount,
                 refillingRef, count, scenario, ended, notice>>

\* rebuildStateAtPos after getTrashSet: the first getPhotos of the loop
JumpGotTrash(i) ==
  /\ tasks[i].pc = "jTrash"
  /\ tasks' = Replace(i, [tasks[i] EXCEPT !.pc = "jFetch"])
  /\ UNCHANGED <<env, err, kTrash, progress, cache, flags, qstate, trashCount, hist,
                 totalCount, refillingRef, pending, count, obs>>

\* A faulty start that takes the page from its top: C6 must not survive it.
StartIdxPageTop(targetPos, consumed) == 0

\* const startIdx = Math.max(0, targetPos - consumed)
StartIdx(targetPos, consumed) == Max(0, targetPos - consumed)

\* rebuildStateAtPos with a page in: stop on an empty page, skip a page that
\* ends before the target, else slice, filter, top up and commit
JumpFetched(i) ==
  /\ tasks[i].pc = "jFetch"
  /\ LET t == tasks[i]
         res == GetPhotos(PAGE_SIZE, t.after)
         pageLen == Len(res.edges)
         startIdx == StartIdx(t.target, t.consumed)
     IN IF pageLen = 0
        THEN /\ CommitState(Max(0, t.consumed), <<>>, Null)
             /\ tasks' = Replace(i, [t EXCEPT !.pc = "persist", !.tr = {},
                                              !.after = Null, !.consumed = 0,
                                              !.pre = Null,
                                              !.old = Some(progress)])
        ELSE IF /\ t.consumed + pageLen <= t.target
                /\ res.has_next_page
                /\ res.end_cursor # Null
             THEN /\ tasks' = Replace(i, [t EXCEPT
                                  !.consumed = t.consumed + pageLen,
                                  !.after = res.end_cursor])
                  /\ UNCHANGED <<qstate, progress>>
             ELSE CallRefill(tasks, i, Max(0, t.target),
                             Filter(SliceFrom(res.edges, startIdx), t.tr),
                             NextAfter(res))
  /\ UNCHANGED <<env, err, kTrash, cache, flags, trashCount, hist, totalCount,
                 refillingRef, pending, count, obs>>

\* the alert's onPress after commitState: finally setBusy(false)
JumpDone(i) ==
  /\ tasks[i].pc = "persist" /\ tasks[i].kind = "jump"
  /\ SetBusy(FALSE)
  /\ scenario' = Follow("jump")
  /\ ended' = NoEnd
  /\ tasks' = Remove(i)
  /\ UNCHANGED <<env, err, kTrash, progress, cache, qstate, trashCount, hist,
                 totalCount, refillingRef, pending, count, walk, notice>>

\* ------------------------------------------------------------ restart
\* restartFromBeginning: ask; the alert's button closes over this render
RestartFromBeginning ==
  /\ CanPress
  /\ pending' = Append(pending,
        [kind |-> "restart", busy |-> busy, pos |-> 0, queue |-> Null,
         afterCursor |-> Null, text |-> NoText, known |-> Null])
  /\ notice' = "none"
  /\ UNCHANGED <<env, err, kTrash, progress, cache, flags, qstate, trashCount, hist,
                 totalCount, refillingRef, tasks, count, walk, scenario, ended>>

\* A faulty clearProgress that leaves the position key: C19 must not survive
\* it.
ClearProgressKeepsPos ==
  /\ kPos' = kPos /\ kQueue' = Null /\ kAfter' = Null
  /\ UNCHANGED <<kTrash, cache>>

\* A faulty clearProgress that removes the keys of the total count as well:
\* C20 must not survive it.
ClearProgressAndCache ==
  /\ kPos' = Null /\ kQueue' = Null /\ kAfter' = Null
  /\ kTotal' = Null /\ kTotalTs' = Null
  /\ UNCHANGED kTrash

\* clearProgress: the three removeItem of one Promise.all, and no other key
ClearProgress ==
  /\ kPos' = Null /\ kQueue' = Null /\ kAfter' = Null
  /\ UNCHANGED <<kTrash, cache>>

\* the Restart button of the alert, up to the await of clearProgress
ConfirmRestart(j) ==
  /\ pending[j].kind = "restart"
  /\ Len(tasks) < MaxTasks
  /\ pending' = Drop(j)
  /\ IF pending[j].busy
     THEN UNCHANGED <<flags, hist, tasks, walk, progress, kTrash, cache>>
     ELSE /\ SetBusy(TRUE)
          /\ ClearHistory
          /\ ClearProgress
          /\ tasks' = Append(tasks,
                 [NoTask EXCEPT !.kind = "restart", !.pc = "cleared",
                                !.pre = Some(qstate), !.old = Some(progress)])
          /\ walk' = NoWalk
  /\ UNCHANGED <<env, err, qstate, trashCount, totalCount,
                 refillingRef, count, scenario, ended, notice>>

\* the alert's onPress after clearProgress: loadInitial, inside the try
RestartCleared(i) ==
  /\ tasks[i].pc = "cleared"
  /\ tasks' = Replace(i, LoadTask("restart"))
  /\ UNCHANGED <<env, err, kTrash, progress, cache, flags, qstate, trashCount, hist,
                 totalCount, refillingRef, pending, count, obs>>

\* the Reload button of the done screen calls loadInitial
Reload ==
  /\ Front /\ err = Null /\ Done
  /\ Len(tasks) < MaxTasks
  /\ tasks' = Append(tasks, LoadTask("reload"))
  /\ walk' = NoWalk
  /\ notice' = "none"
  /\ UNCHANGED <<env, err, kTrash, progress, cache, flags, qstate, trashCount, hist,
                 totalCount, refillingRef, pending, count, scenario, ended>>

\* ------------------------------------------------------ automatic refill
\* the effect on [afterCursor, busy, pos, queue]: an empty queue with a cursor
\* left is topped up; up to the first await of refillQueueIfNeeded
AutoRefill ==
  /\ mounted
  /\ ~busy /\ ~refillingRef
  /\ queue # Null /\ Len(queue[1]) = 0
  /\ afterCursor # Null
  /\ Len(tasks) < MaxTasks
  /\ refillingRef' = TRUE
  /\ SetBusy(TRUE)
  /\ CallRefill(Append(tasks, [NoTask EXCEPT !.kind = "refill",
                                              !.pre = Some(qstate)]),
                Len(tasks) + 1, pos, queue[1], afterCursor)
  /\ UNCHANGED <<env, err, kTrash, cache, trashCount, hist, totalCount, pending,
                 count, obs>>

\* A faulty effect whose finally leaves refillingRef set: C38 must not
\* survive it.
AutoRefillDoneKeepsRef(i) ==
  /\ tasks[i].pc = "persist" /\ tasks[i].kind = "refill"
  /\ SetBusy(FALSE)
  /\ refillingRef' = TRUE
  /\ walk' = Show(walk, queue)
  /\ ended' = NoEnd
  /\ tasks' = Remove(i)
  /\ UNCHANGED <<env, err, kTrash, progress, cache, qstate, trashCount, hist,
                 totalCount, pending, count, scenario, notice>>

\* the effect after commitState: finally setBusy(false), refillingRef off
AutoRefillDone(i) ==
  /\ tasks[i].pc = "persist" /\ tasks[i].kind = "refill"
  /\ SetBusy(FALSE)
  /\ refillingRef' = FALSE
  /\ walk' = Show(walk, queue)
  /\ ended' = NoEnd
  /\ tasks' = Remove(i)
  /\ UNCHANGED <<env, err, kTrash, progress, cache, qstate, trashCount, hist,
                 totalCount, pending, count, scenario, notice>>

\* ------------------------------------------------------------ total count
\* loadTotalCountFromCacheOrCompute after the read of KEY_TOTAL: read KEY_TOTAL_TS
CountGotCached ==
  /\ count.pc = "cached"
  /\ count' = [count EXCEPT !.pc = "ts", !.ts = GetNumber(kTotalTs, 0)]
  /\ UNCHANGED <<env, err, kTrash, progress, cache, flags, qstate, trashCount, hist,
                 totalCount, refillingRef, tasks, pending, obs>>

\* A faulty loadTotalCountFromCacheOrCompute that holds busy while it
\* enumerates: C32 must not survive it.
CountGotTsHoldsBusy ==
  /\ count.pc = "ts"
  /\ totalCount' = IF count.cached > 0 THEN Some(count.cached) ELSE totalCount
  /\ LET isStale == count.ts = 0 \/ now - count.ts > ONE_DAY
     IN IF count.cached > 0 /\ ~isStale
        THEN count' = [count EXCEPT !.pc = "done"] /\ UNCHANGED flags
        ELSE /\ count' = [count EXCEPT !.pc = "fetch", !.sum = 0, !.after = Null,
                                       !.pre = Some(<<kTotal, kTotalTs,
                                                      totalCount'>>)]
             /\ busy' = TRUE /\ UNCHANGED jumpSeen
  /\ UNCHANGED <<env, err, kTrash, progress, cache, qstate, trashCount, hist,
                 refillingRef, tasks, pending, obs>>

\* with both in: show the cached total, return if it is fresh, else start
\* countAllPhotos with its first page
CountGotTs ==
  /\ count.pc = "ts"
  /\ totalCount' = IF count.cached > 0 THEN Some(count.cached) ELSE totalCount
  /\ LET isStale == count.ts = 0 \/ now - count.ts > ONE_DAY
     IN count' = IF count.cached > 0 /\ ~isStale
                 THEN [count EXCEPT !.pc = "done"]
                 ELSE [count EXCEPT !.pc = "fetch", !.sum = 0, !.after = Null,
                                    !.pre = Some(<<kTotal, kTotalTs,
                                                   totalCount'>>)]
  /\ UNCHANGED <<env, err, kTrash, progress, cache, flags, qstate, trashCount, hist,
                 refillingRef, tasks, pending, obs>>

\* A faulty countAllPhotos that shows the sum page by page: C24 must not
\* survive it.
CountFetchedShowsSum ==
  /\ count.pc = "fetch"
  /\ LET res == GetPhotos(COUNT_PAGE_SIZE, count.after)
         sum == count.sum + Len(res.edges)
     IN IF res.has_next_page /\ res.end_cursor # Null
        THEN /\ count' = [count EXCEPT !.sum = sum, !.after = res.end_cursor]
             /\ totalCount' = Some(sum)
             /\ UNCHANGED cache
        ELSE /\ totalCount' = Some(sum)
             /\ kTotal' = Some(sum) /\ kTotalTs' = Some(now)
             /\ count' = [count EXCEPT !.pc = "written", !.sum = 0,
                                       !.after = Null]
  /\ UNCHANGED <<env, err, kTrash, progress, flags, qstate, trashCount, hist,
                 refillingRef, tasks, pending, obs>>

\* countAllPhotos with a page in: add it up; after the last page show the
\* total and write the cache
CountFetched ==
  /\ count.pc = "fetch"
  /\ LET res == GetPhotos(COUNT_PAGE_SIZE, count.after)
         sum == count.sum + Len(res.edges)
     IN IF res.has_next_page /\ res.end_cursor # Null
        THEN /\ count' = [count EXCEPT !.sum = sum, !.after = res.end_cursor]
             /\ UNCHANGED <<totalCount, cache>>
        ELSE /\ totalCount' = Some(sum)
             /\ kTotal' = Some(sum) /\ kTotalTs' = Some(now)
             /\ count' = [count EXCEPT !.pc = "written", !.sum = 0,
                                       !.after = Null]
  /\ UNCHANGED <<env, err, kTrash, progress, flags, qstate, trashCount, hist,
                 refillingRef, tasks, pending, obs>>

\* after the two cache writes
CountWritten ==
  /\ count.pc = "written"
  /\ count' = [count EXCEPT !.pc = "done"]
  /\ UNCHANGED <<env, err, kTrash, progress, cache, flags, qstate, trashCount, hist,
                 totalCount, refillingRef, tasks, pending, obs>>

\* getPhotos rejects inside countAllPhotos: the catch ignores it
CountFails ==
  /\ count.pc = "fetch"
  /\ count' = [count EXCEPT !.pc = "failed"]
  /\ UNCHANGED <<env, err, kTrash, progress, cache, flags, qstate, trashCount,
                 hist, totalCount, refillingRef, tasks, pending, obs>>

\* time passes while the screen is idle or the app is closed
Tick ==
  /\ Quiet /\ count.pc \in {"none", "done", "failed"}
  /\ now < MaxNow
  /\ now' = now + 1
  /\ UNCHANGED <<total, paging, deleted, mounted, trashView, kTrash, progress,
                 cache, flags, qstate, trashCount, hist, totalCount, err,
                 refillingRef, tasks, pending, count, obs>>

\* A faulty handler without its finally: a rejected await leaves busy set.
\* C39 must not survive it.
FailHoldsBusy(i, cause) ==
  LET t == tasks[i]
  IN /\ tasks' = Remove(i)
     /\ ended' = [kind |-> IF t.kind = "load" THEN t.via ELSE t.kind,
                  cause |-> cause, pre |-> t.pre, post |-> Null, was |-> t.old]
     /\ IF t.kind = "load"
        THEN /\ err' = Some("Failed to load photos")
             /\ IF t.via = "restart" THEN SetBusy(FALSE) ELSE UNCHANGED flags
             /\ count' = IF t.via = "mount" THEN CountTask ELSE count
             /\ UNCHANGED <<refillingRef, notice>>
        ELSE /\ UNCHANGED flags
             /\ refillingRef' = IF t.kind = "refill" THEN FALSE ELSE refillingRef
             /\ notice' = IF t.kind = "jump" THEN "Jump failed" ELSE notice
             /\ UNCHANGED <<err, count>>
     /\ walk' = NoWalk
     /\ scenario' = Off
     /\ UNCHANGED <<env, kTrash, cache, qstate, trashCount, hist, totalCount,
                    pending>>

\* ------------------------------------------------------------ failures
\* An await of handler i rejects.  skipCurrent, trashCurrent, undoLast and the
\* automatic refill have no catch: their finally releases busy and the
\* rejection leaves the handler.  The alert's onPress of jumpToNth catches and
\* puts up "Jump failed".  loadInitial catches and sets err; its caller goes
\* on as after a load that went well.
Fail(i, cause) ==
  LET t == tasks[i]
  IN /\ tasks' = Remove(i)
     /\ ended' = [kind |-> IF t.kind = "load" THEN t.via ELSE t.kind,
                  cause |-> cause, pre |-> t.pre, post |-> Null, was |-> t.old]
     /\ IF t.kind = "load"
        THEN /\ err' = Some("Failed to load photos")
             /\ IF t.via = "restart" THEN SetBusy(FALSE) ELSE UNCHANGED flags
             /\ count' = IF t.via = "mount" THEN CountTask ELSE count
             /\ UNCHANGED <<refillingRef, notice>>
        ELSE /\ SetBusy(FALSE)
             /\ refillingRef' = IF t.kind = "refill" THEN FALSE ELSE refillingRef
             /\ notice' = IF t.kind = "jump" THEN "Jump failed" ELSE notice
             /\ UNCHANGED <<err, count>>
     /\ walk' = NoWalk
     /\ scenario' = Off
     /\ UNCHANGED <<env, kTrash, cache, qstate, trashCount, hist, totalCount,
                    pending>>

\* CameraRoll.getPhotos rejects: in refillQueueIfNeeded, in the loop of
\* rebuildStateAtPos, or in loadInitial
FetchFails(i) ==
  /\ tasks[i].pc \in {"refillFetch", "jFetch", "lFetch"}
  /\ Fail(i, "fetch")
  /\ UNCHANGED progress

\* the three keys of a progress record
Keys == {"pos", "queue", "after"}

\* the progress record with the keys in lost as in record was, the others as
\* they are
Partly(lost, was) ==
  /\ kPos' = IF "pos" \in lost THEN was[1] ELSE kPos
  /\ kQueue' = IF "queue" \in lost THEN was[2] ELSE kQueue
  /\ kAfter' = IF "after" \in lost THEN was[3] ELSE kAfter

\* persistProgress rejects: Promise.all rejects when one of its three writes
\* does, and the writes that failed left their keys as they were
WriteFails(i) ==
  /\ tasks[i].pc = "persist"
  /\ \E lost \in (SUBSET Keys) \ {{}} : Partly(lost, tasks[i].old[1])
  /\ Fail(i, "write")

\* The process is killed while the three writes of a commit are under way:
\* AsyncStorage takes them one by one in the order persistProgress issued
\* them, and the first landed of them have happened.  The next start of the
\* app renders the screen anew and its mount effect reads what is stored.
Kill(i) ==
  /\ tasks[i].pc = "persist"
  /\ ended.kind # "kill"
  /\ \E lost \in {{"queue", "after"}, {"after"}} : Partly(lost, tasks[i].old[1])
  /\ ended' = [kind |-> "kill", cause |-> "kill", pre |-> tasks[i].old,
               post |-> Some(progress), was |-> Null]
  /\ busy' = FALSE /\ jumpSeen' = Null
  /\ pos' = 0 /\ queue' = Null /\ afterCursor' = Null
  /\ trashCount' = 0 /\ totalCount' = Null /\ err' = Null
  /\ ClearHistory
  /\ refillingRef' = FALSE
  /\ tasks' = <<[NoTask EXCEPT !.kind = "load", !.pc = "lRead",
                               !.via = "mount", !.tr = kTrash,
                               !.npos = GetNumber(kPos', 0),
                               !.q = GetStringArray(kQueue'),
                               !.after = kAfter',
                               !.pre = Some(<<0, Null, Null>>),
                               !.old = Some(<<kPos', kQueue', kAfter'>>)]>>
  /\ pending' = <<>>
  /\ count' = NoCount
  /\ notice' = "none" /\ walk' = NoWalk /\ scenario' = Off
  /\ UNCHANGED <<env, kTrash, cache>>

\* the Retry button of the error screen calls loadInitial
Retry ==
  /\ Front /\ err # Null
  /\ Len(tasks) < MaxTasks
  /\ tasks' = Append(tasks, LoadTask("retry"))
  /\ walk' = NoWalk
  /\ notice' = "none"
  /\ UNCHANGED <<env, err, kTrash, progress, cache, flags, qstate, trashCount,
                 hist, totalCount, refillingRef, pending, count, scenario,
                 ended>>

\* ------------------------------------------------------------ navigation
\* Back, with a page fetch in flight: the screen leaves the stack and its state
\* goes with it.  Nothing cancels the handler: the cleanup of the mount effect
\* clears alive, which is read once, before loadInitial is called.  From here
\* on the setters of the handler reach no screen, its writes reach the
\* storage.
Unmount ==
  /\ Front /\ pending = <<>>
  /\ \E i \in 1..Len(tasks) : tasks[i].pc \in {"refillFetch", "jFetch", "lFetch"}
  /\ mounted' = FALSE
  /\ ended' = [kind |-> "unmount", cause |-> "unmount", pre |-> Some(qstate),
               post |-> Null, was |-> Some(progress)]
  /\ UNCHANGED <<total, paging, now, deleted, trashView, kTrash, progress,
                 cache, flags, qstate, trashCount, hist, totalCount, err,
                 refillingRef, tasks, pending, count, notice, walk, scenario>>

\* The app is closed with no handler in flight and no write under way, and
\* opened again; or the screen is left and entered again.  The screen is
\* rendered anew and its mount effect reads what is stored.
Relaunch ==
  /\ Quiet /\ ~trashView.open /\ count.pc # "written"
  /\ mounted' = TRUE
  /\ busy' = FALSE /\ jumpSeen' = Null
  /\ pos' = 0 /\ queue' = Null /\ afterCursor' = Null
  /\ trashCount' = 0 /\ totalCount' = Null /\ err' = Null
  /\ ClearHistory
  /\ refillingRef' = FALSE
  /\ tasks' = <<[NoTask EXCEPT !.kind = "load", !.pc = "lRead",
                               !.via = "mount", !.tr = kTrash,
                               !.npos = GetNumber(kPos, 0),
                               !.q = GetStringArray(kQueue),
                               !.after = kAfter,
                               !.pre = Some(<<0, Null, Null>>),
                               !.old = Some(progress)]>>
  /\ count' = NoCount
  /\ notice' = "none" /\ walk' = NoWalk /\ scenario' = Off /\ ended' = NoEnd
  /\ UNCHANGED <<total, paging, now, deleted, trashView, kTrash, progress,
                 cache, pending>>

\* ------------------------------------------------------------ TrashScreen
\* what TrashScreen leaves alone but the trash set and the device
GalleryState ==
  <<total, paging, now, mounted, progress, cache, flags, qstate, hist,
    totalCount, err, refillingRef, tasks, pending, count, obs>>

\* the Trash button of the main or the done screen: TrashScreen mounts and its
\* effect calls loadTrash, which reads the trash set
OpenTrash ==
  /\ Front /\ err = Null /\ queue # Null
  /\ trashView' = [NoTrashView EXCEPT !.open = TRUE, !.pc = "load",
                                      !.tr = kTrash]
  /\ UNCHANGED <<GalleryState, deleted, kTrash, trashCount>>

\* loadTrash with the set in: setItems; a handler that called it ends with
\* finally setBusy(false)
TrashLoaded ==
  /\ trashView.pc = "load"
  /\ trashView' = [trashView EXCEPT !.pc = "idle", !.items = trashView.tr,
                                    !.busy = FALSE, !.uris = {}, !.tr = {},
                                    !.all = FALSE]
  /\ UNCHANGED <<GalleryState, deleted, kTrash, trashCount>>

\* recover(uri), up to the read of removeFromTrash
Recover(uri) ==
  /\ trashView.pc = "idle" /\ ~trashView.busy /\ uri \in trashView.items
  /\ trashView' = [trashView EXCEPT !.pc = "remRead", !.busy = TRUE,
                                    !.uris = {uri}, !.tr = kTrash]
  /\ UNCHANGED <<GalleryState, deleted, kTrash, trashCount>>

\* s.delete(uri), setTrashSet(s): of removeFromTrash in recover, and of
\* deleteOneNow after the photo is deleted
TrashRemoved ==
  /\ trashView.pc = "remRead"
  /\ kTrash' = trashView.tr \ trashView.uris
  /\ trashView' = [trashView EXCEPT !.pc = "written", !.tr = {}]
  /\ UNCHANGED <<GalleryState, deleted, trashCount>>

\* after the write of the trash set: loadTrash
TrashReload ==
  /\ trashView.pc = "written"
  /\ trashView' = [trashView EXCEPT !.pc = "load", !.tr = kTrash]
  /\ UNCHANGED <<GalleryState, deleted, kTrash, trashCount>>

\* deleteAll, which reads the trash set and asks unless it is empty, and
\* deleteOneNow(uri), which asks
AskDelete ==
  /\ trashView.pc = "idle" /\ ~trashView.busy /\ trashView.items # {}
  /\ \/ /\ kTrash # {}
        /\ trashView' = [trashView EXCEPT !.pc = "ask", !.uris = kTrash,
                                          !.all = TRUE]
     \/ \E uri \in trashView.items :
          trashView' = [trashView EXCEPT !.pc = "ask", !.uris = {uri},
                                        !.all = FALSE]
  /\ UNCHANGED <<GalleryState, deleted, kTrash, trashCount>>

\* Cancel on the alert
CancelDelete ==
  /\ trashView.pc = "ask"
  /\ trashView' = [trashView EXCEPT !.pc = "idle", !.uris = {}, !.all = FALSE]
  /\ UNCHANGED <<GalleryState, deleted, kTrash, trashCount>>

\* Delete on the alert: setBusy(true), CameraRoll.deletePhotos(uris)
ConfirmDelete ==
  /\ trashView.pc = "ask"
  /\ trashView' = [trashView EXCEPT !.pc = "deleting", !.busy = TRUE]
  /\ UNCHANGED <<GalleryState, deleted, kTrash, trashCount>>

\* deletePhotos went through: the photos are off the device; then clearTrash
\* of deleteAll, or the read of the trash set of deleteOneNow
DeleteDone ==
  /\ trashView.pc = "deleting"
  /\ deleted' = deleted \cup trashView.uris
  /\ IF trashView.all
     THEN /\ kTrash' = {}
          /\ trashView' = [trashView EXCEPT !.pc = "written"]
     ELSE /\ trashView' = [trashView EXCEPT !.pc = "remRead", !.tr = kTrash]
          /\ UNCHANGED kTrash
  /\ UNCHANGED <<GalleryState, trashCount>>

\* deletePhotos rejects, as when the system's own confirmation is declined:
\* the alert "Delete failed", finally setBusy(false)
DeleteRefused ==
  /\ trashView.pc = "deleting"
  /\ trashView' = [trashView EXCEPT !.pc = "idle", !.busy = FALSE,
                                    !.uris = {}, !.all = FALSE]
  /\ UNCHANGED <<GalleryState, deleted, kTrash, trashCount>>

\* Back: TrashScreen leaves the stack, and the focus listener of this screen
\* reads the trash set for the count on its button
CloseTrash ==
  /\ trashView.pc = "idle" /\ ~trashView.busy
  /\ trashView' = NoTrashView
  /\ trashCount' = Cardinality(kTrash)
  /\ UNCHANGED <<GalleryState, deleted, kTrash>>

\* ------------------------------------------------------------ the screen
\* The state after the first render, with the mount effect inside
\* loadInitial's first await, on a device that never ran the app.
Init ==
  /\ total \in 0..MaxItems
  /\ paging \in Pagings
  /\ now = 1
  /\ deleted = {} /\ mounted = TRUE /\ trashView = NoTrashView
  /\ kTrash = {} /\ kPos = Null /\ kQueue = Null /\ kAfter = Null
  /\ kTotal = Null /\ kTotalTs = Null
  /\ busy = FALSE /\ pos = 0 /\ queue = Null /\ afterCursor = Null
  /\ trashCount = 0 /\ history = <<>> /\ totalCount = Null /\ err = Null
  /\ refillingRef = FALSE
  /\ tasks = <<[NoTask EXCEPT !.kind = "load", !.pc = "lRead", !.via = "mount",
                               !.pre = Some(<<0, Null, Null>>),
                               !.old = Some(<<Null, Null, Null>>)]>>
  /\ pending = <<>>
  /\ count = NoCount
  /\ jumpSeen = Null /\ notice = "none"
  /\ base = <<>> /\ pushed = <<>>
  /\ walk = NoWalk
  /\ scenario = 0
  /\ ended = NoEnd

\* an alert is modal: nothing else on the screen can be touched under it
NoAlert == \A j \in 1..Len(pending) : pending[j].kind \in {"skip", "trash"}

\* Effects run before the screen takes the next touch, and the total count
\* shares no variable with the handlers but totalCount, which only jumpToNth
\* reads: the user touches the screen when the automatic refill is not due
\* and the count is at its start or its end.
Settled ==
  /\ ~(~busy /\ ~refillingRef /\ queue # Null /\ CurrentUri(queue) = Null
        /\ afterCursor # Null)
  /\ count.pc \in {"none", "cached", "done", "failed"}

\* what the user can start from the screen
Swipe(depth) == \E kind \in {"skip", "trash"} : Release(kind, depth)

Jump == TypeJump \/ \E text \in JumpTexts : JumpToNth(text)

\* callbacks that were set up earlier
AnimationEnds == \E j \in 1..Len(pending) : AnimationEnd(j)

JumpAnswered == \E j \in 1..Len(pending) : ConfirmJump(j)

RestartAnswered == \E j \in 1..Len(pending) : ConfirmRestart(j)

AlertCancelled == \E j \in 1..Len(pending) : CancelAlert(j)

\* a promise resolves and its handler runs on
RefillStep == \E i \in 1..Len(tasks) : RefillGotTrash(i) \/ RefillFetched(i)

LoadStep ==
  \E i \in 1..Len(tasks) : LoadRead(i) \/ LoadFetched(i) \/ LoadDone(i)

SwipeStep ==
  \E i \in 1..Len(tasks) :
    TrashAddRead(i) \/ TrashAddWritten(i) \/ TrashCounted(i) \/ SwipeDone(i)

UndoStep ==
  \E i \in 1..Len(tasks) :
    UndoRemRead(i) \/ UndoRemWritten(i) \/ UndoCounted(i) \/ UndoDone(i)

JumpStep ==
  \E i \in 1..Len(tasks) : JumpGotTrash(i) \/ JumpFetched(i) \/ JumpDone(i)

RestartStep == \E i \in 1..Len(tasks) : RestartCleared(i)

AutoRefillStep == AutoRefill \/ \E i \in 1..Len(tasks) : AutoRefillDone(i)

CountStep == CountGotCached \/ CountGotTs \/ CountFetched \/ CountWritten

\* The screen used one request at a time: the user touches it only when no
\* handler is in flight and no callback is waiting.
Next ==
  \/ /\ Quiet /\ Settled
     /\ Swipe(MaxPos) \/ UndoLast \/ Jump \/ RestartFromBeginning \/ Reload
  \/ AnimationEnds \/ JumpAnswered \/ RestartAnswered \/ AlertCancelled
  \/ RefillStep \/ LoadStep \/ SwipeStep \/ UndoStep \/ JumpStep
  \/ RestartStep \/ AutoRefillStep
  \/ Quiet /\ CountStep

Spec == Init /\ [][Next]_vars

\* The same with swipes and undo alone, for longer.
NextUndo ==
  \/ Quiet /\ Settled /\ (Swipe(UndoDepth) \/ UndoLast)
  \/ AnimationEnds
  \/ RefillStep \/ LoadStep \/ SwipeStep \/ UndoStep \/ AutoRefillStep
  \/ Quiet /\ CountStep

SpecUndo == Init /\ [][NextUndo]_vars

\* The same with swipes alone, for longer still.
NextSwipe ==
  \/ Quiet /\ Settled /\ Swipe(SwipeDepth)
  \/ AnimationEnds
  \/ RefillStep \/ LoadStep \/ SwipeStep \/ AutoRefillStep
  \/ Quiet /\ CountStep

SpecSwipe == Init /\ [][NextSwipe]_vars

\* The same with a user who swipes whenever the screen lets them, a camera
\* roll and a storage that answer every request, and animations that end.
SpecLive == Init /\ [][NextSwipe]_vars /\ WF_vars(NextSwipe)

\* The same with a user who may stop swiping at any moment: only the effect
\* and the handlers in flight go on, with a camera roll and a storage that
\* answer every request.
SpecAuto ==
  Init /\ [][NextSwipe]_vars /\ WF_vars(AutoRefillStep) /\ WF_vars(RefillStep)

\* The screen as it is: a swipe is taken while the animation of the one
\* before runs or a handler is in flight, too.
NextRace ==
  \/ Settled /\ Len(pending) < MaxPending /\ Swipe(RaceDepth)
  \/ AnimationEnds
  \/ RefillStep \/ LoadStep \/ SwipeStep \/ AutoRefillStep
  \/ Quiet /\ CountStep

SpecRace == Init /\ [][NextRace]_vars

\* The screen as it is, with left swipes and the Undo button: a swipe is
\* taken while the animation of the one before runs, Undo on the idle screen.
\* Nothing is trashed, so the automatic refill is never due.  Undo is touched
\* while the buffer is within one photo of low-water mark, page and history
\* together.
NextCrowd ==
  \/ Settled /\ Len(pending) < MaxPending /\ Release("skip", RaceDepth)
  \/ /\ Quiet
     /\ Len(queue[1]) < MIN_QUEUE_BEFORE_REFILL + PAGE_SIZE + HISTORY_LIMIT
     /\ UndoLast
  \/ AnimationEnds
  \/ RefillStep \/ LoadStep \/ SwipeStep \/ UndoStep
  \/ Quiet /\ CountStep

SpecCrowd == Init /\ [][NextCrowd]_vars

\* The screen used one request at a time, without its Undo button, and with
\* a camera roll that may fail any request.
FetchFailure == \E i \in 1..Len(tasks) : FetchFails(i)

NextFetch ==
  \/ /\ Quiet /\ Settled
     /\ Swipe(MaxPos) \/ Jump \/ RestartFromBeginning \/ Reload \/ Retry
  \/ AnimationEnds \/ JumpAnswered \/ RestartAnswered \/ AlertCancelled
  \/ RefillStep \/ LoadStep \/ SwipeStep \/ JumpStep
  \/ RestartStep \/ AutoRefillStep
  \/ FetchFailure
  \/ Quiet /\ CountStep

SpecFetch == Init /\ [][NextFetch]_vars

\* The screen used one request at a time, its swipes and Undo, with a
\* storage that may fail any write of the progress record.
WriteFailure == \E i \in 1..Len(tasks) : WriteFails(i)

NextWrite ==
  \/ Quiet /\ Settled /\ (Swipe(MaxPos) \/ UndoLast)
  \/ AnimationEnds
  \/ RefillStep \/ LoadStep \/ SwipeStep \/ UndoStep \/ AutoRefillStep
  \/ WriteFailure
  \/ Quiet /\ CountStep

SpecWrite == Init /\ [][NextWrite]_vars

\* The screen used one request at a time by a user who follows the walk of
\* Script and may leave it with one request of any kind; after that request
\* or a failure they only swipe, and only while nothing is left to undo.  The camera roll may fail
\* any request and the storage any write of the progress; the steps of the
\* handlers in flight are taken sooner or later.
HandlerStep ==
  \/ RefillStep \/ LoadStep \/ SwipeStep \/ UndoStep \/ JumpStep
  \/ RestartStep \/ AutoRefillStep

NextBusy ==
  \/ /\ Quiet /\ Settled /\ (scenario < Off \/ history = <<>>)
     /\ Swipe(SwipeDepth)
  \/ /\ Quiet /\ Settled /\ scenario < Off
     /\ UndoLast \/ Jump \/ RestartFromBeginning
  \/ AnimationEnds \/ JumpAnswered \/ RestartAnswered \/ AlertCancelled
  \/ HandlerStep
  \/ FetchFailure \/ WriteFailure
  \/ Quiet /\ CountStep

SpecBusy == Init /\ [][NextBusy]_vars /\ WF_vars(HandlerStep)

\* The screen used one request at a time, its swipes and Undo, on a device
\* that may kill the app once.
Killed == \E i \in 1..Len(tasks) : Kill(i)

NextKill ==
  \/ Quiet /\ Settled /\ (Swipe(MaxPos) \/ UndoLast)
  \/ AnimationEnds
  \/ RefillStep \/ LoadStep \/ SwipeStep \/ UndoStep \/ AutoRefillStep
  \/ Killed
  \/ Quiet /\ CountStep

SpecKill == Init /\ [][NextKill]_vars

\* The screen used one request at a time, its swipes and the jump, with the total count running at its own pace beside every handler.
NextBackground ==
  \/ /\ Quiet
     /\ ~(~busy /\ ~refillingRef /\ queue # Null /\ CurrentUri(queue) = Null
           /\ afterCursor # Null)
     /\ Swipe(MaxPos) \/ Jump
  \/ AnimationEnds \/ JumpAnswered \/ AlertCancelled
  \/ RefillStep \/ LoadStep \/ SwipeStep \/ JumpStep \/ AutoRefillStep
  \/ CountStep

SpecBackground == Init /\ [][NextBackground]_vars

\* Swipes one at a time, and the Undo button touched whenever no animation
\* runs: while a handler is in flight, while it is disabled.
NextPress ==
  \/ Quiet /\ Settled /\ Swipe(UndoDepth)
  \/ pending = <<>> /\ (UndoLast \/ UndoRefused)
  \/ AnimationEnds
  \/ RefillStep \/ LoadStep \/ SwipeStep \/ UndoStep \/ AutoRefillStep
  \/ Quiet /\ CountStep

SpecPress == Init /\ [][NextPress]_vars

\* The screen used one request at a time, on a device where the app is
\* closed and opened again, and with a user who may leave the screen while a
\* handler is in flight.
NextCold ==
  \/ /\ Quiet /\ Settled
     /\ Swipe(MaxPos) \/ UndoLast \/ Jump \/ RestartFromBeginning \/ Reload
  \/ AnimationEnds \/ JumpAnswered \/ RestartAnswered \/ AlertCancelled
  \/ RefillStep \/ LoadStep \/ SwipeStep \/ UndoStep \/ JumpStep
  \/ RestartStep \/ AutoRefillStep
  \/ Unmount \/ Relaunch
  \/ Quiet /\ CountStep

SpecCold == Init /\ [][NextCold]_vars

\* The screen used one request at a time, its swipes alone, over days: the
\* app is closed and opened again, and the camera roll may fail the count.
NextCount ==
  \/ Quiet /\ Settled /\ Swipe(MaxPos)
  \/ AnimationEnds
  \/ RefillStep \/ LoadStep \/ SwipeStep \/ AutoRefillStep
  \/ Tick \/ Relaunch
  \/ Quiet /\ (CountStep \/ CountFails)

SpecCount == Init /\ [][NextCount]_vars

\* The screen used one request at a time, its swipes alone, and TrashScreen
\* opened from it.
NextTrash ==
  \/ Quiet /\ Settled /\ (Swipe(MaxPos) \/ OpenTrash)
  \/ AnimationEnds
  \/ RefillStep \/ LoadStep \/ SwipeStep \/ AutoRefillStep
  \/ TrashLoaded \/ TrashRemoved \/ TrashReload
  \/ (\E uri \in 1..MaxItems : Recover(uri)) \/ AskDelete \/ CancelDelete
  \/ ConfirmDelete \/ DeleteDone \/ DeleteRefused \/ CloseTrash
  \/ Quiet /\ CountStep

SpecTrash == Init /\ [][NextTrash]_vars

\* The same with the Trash button as it is: pressed at any time, also while
\* an animation runs or a handler of this screen is in flight.
NextShared ==
  \/ Quiet /\ Settled /\ Swipe(MaxPos)
  \/ OpenTrash
  \/ AnimationEnds
  \/ RefillStep \/ LoadStep \/ SwipeStep \/ AutoRefillStep
  \/ TrashLoaded \/ TrashRemoved \/ TrashReload
  \/ (\E uri \in 1..MaxItems : Recover(uri)) \/ AskDelete \/ CancelDelete
  \/ ConfirmDelete \/ DeleteDone \/ DeleteRefused \/ CloseTrash
  \/ Quiet /\ CountStep

SpecShared == Init /\ [][NextShared]_vars

\* ------------------------------------------------------------ properties
\* the history entries of an annotated history
Plain(s) == [i \in 1..Len(s) |-> [kind |-> s[i].kind, uri |-> s[i].uri]]

AtCommit(kind) ==
  {i \in 1..Len(tasks) : tasks[i].kind = kind /\ tasks[i].pc = "persist"}

\* C1: with exactly 3 photos, an empty trash and a page of at least 3, the
\* start shows buffer [1,2,3] at position 0; skip gives position 1 and
\* [2,3]; trash gives trash {2}, position 2 and [3]; undo gives an empty
\* trash, position 1 and [2,3]; two more skips give position 3, an empty
\* buffer, no cursor and the done screen.
C1_ScenarioTrace ==
  (Quiet /\ total = 3 /\ PAGE_SIZE >= 3) =>
    /\ scenario = 1 => pos = 0 /\ queue = Some(<<1, 2, 3>>) /\ kTrash = {}
    /\ scenario = 2 => pos = 1 /\ queue = Some(<<2, 3>>)
    /\ scenario = 3 => pos = 2 /\ queue = Some(<<3>>) /\ kTrash = {2}
    /\ scenario = 4 => pos = 1 /\ queue = Some(<<2, 3>>) /\ kTrash = {}
    /\ scenario = 5 => pos = 2 /\ queue = Some(<<3>>)
    /\ scenario = 6 => /\ pos = 3 /\ queue = Some(<<>>)
                       /\ afterCursor = Null /\ Done

\* C2: in a pass that starts from a fresh load and goes on with skip and trash
\* alone, no photo becomes the current one twice, also after the camera roll
\* reported its last page.
C2_ExactlyOnce == walk.fresh => ~walk.again

\* C3: at most one handler that changes the queue is in flight at any time: a
\* request that arrives while another is outstanding does nothing, also when
\* its callback captured busy before the first handler set it.
C3_MutualExclusion == Len(tasks) <= 1

\* C4: after N swipes in a row from position P, each made on the idle screen
\* with a current photo, the position is P + N.
C4_PositionInvariant ==
  (Quiet /\ pushed # <<>>) => pos = pushed[1].pos + Len(pushed)

C4_Witness == Quiet /\ Len(pushed) = 2 /\ pushed[1].pos = 1 /\ pos = 3

\* C5: undoing the trash of x leaves x out of the trash set, makes x the
\* current photo again, and puts the position one below its value after the
\* trash, which is its value before it, whether or not the trash refilled.
C5_UndoInverse ==
  \A i \in AtCommit("undo") :
    tasks[i].entry = "trash" =>
      /\ tasks[i].uri \notin kTrash
      /\ CurrentUri(queue) = Some(tasks[i].uri)
      /\ pos = tasks[i].pos0 - 1
      /\ pos = tasks[i].hp

C5_Witness ==
  \E i \in AtCommit("undo") :
    tasks[i].entry = "trash" /\ tasks[i].pos0 = 2 /\ Len(queue[1]) > 1

\* C6: with an empty trash, a jump to n, 1 <= n <= total, ends at position
\* n - 1 with photo n as the current one, for every page size.
C6_JumpExact ==
  \A i \in AtCommit("jump") :
    (kTrash = {} /\ tasks[i].target < total) =>
      pos = tasks[i].target /\ CurrentUri(queue) = Some(tasks[i].target + 1)

C6_Witness ==
  \E i \in AtCommit("jump") :
    kTrash = {} /\ tasks[i].target = 2 /\ total = 3 /\ PAGE_SIZE = 1

\* C7: after a jump to a target inside the camera roll, the current photo is
\* the first one at or after the target that is not in the trash; if all of
\* them are in the trash, the buffer is empty and holds no photo from before
\* the target.
C7_JumpWithTrash ==
  \A i \in AtCommit("jump") :
    LET rest == {x \in (tasks[i].target + 1)..total : x \notin kTrash}
    IN tasks[i].target < total =>
         /\ (rest # {} /\ CurrentUri(queue) # Null) =>
               /\ CurrentUri(queue)[1] \in rest
               /\ \A x \in rest : CurrentUri(queue)[1] <= x
         /\ rest = {} => queue = Some(<<>>)

\* C8: a jump to a target at or beyond the number of photos, let through
\* because the total was not known, ends in the exhausted state: an empty
\* buffer, no cursor, the done screen.
C8_JumpPastEnd ==
  \A i \in AtCommit("jump") :
    tasks[i].target >= total =>
      queue = Some(<<>>) /\ afterCursor = Null /\ Done

\* what the claim calls an invalid target, against the total on the screen
InvalidTarget(text, known) ==
  \/ text.lit # "int"
  \/ text.v < 1
  \/ known # Null /\ text.v > known[1]

\* C9: a jump request whose target is no integer, below 1 or above the known
\* total is refused: it gets no confirmation to run from and no handler, so
\* nothing is fetched, read or changed for it.
C9_InvalidJumpRejected ==
  \A j \in 1..Len(pending) :
    pending[j].kind = "jump" =>
      ~InvalidTarget(pending[j].text, pending[j].known)

\* C10: the history never holds more than 5 entries, and after k pushes it
\* holds the min(k, 5) latest, newest first: 7 pushes leave the latest 5.
C10_BoundedUndo ==
  /\ Len(history) <= 5
  /\ history = Plain(SliceTo(Reverse(pushed) \o base, 5))

C10_Witness == Len(pushed) = 7 /\ Len(history) = 5

\* C11: on the idle screen, after any run of skip, trash, undo, jump, restart
\* and load, no photo of the buffer is in the trash set.
C11_BufferExcludesTrash ==
  (Quiet /\ queue # Null) =>
    \A k \in 1..Len(queue[1]) : queue[1][k] \notin kTrash

\* the buffer holds no photo twice
NoRepeat(q) == \A j, k \in 1..Len(q) : q[j] = q[k] => j = k

\* C12: what refillQueueIfNeeded returns holds no photo twice, whatever buffer
\* a handler passes to it, a buffer with an undone photo in front included:
\* the buffer a handler commits never holds the same photo twice.
C12_NoDuplicates == queue # Null => NoRepeat(queue[1])

\* C13: once the screen has a buffer, done holds if and only if the buffer is
\* empty and there is no cursor.
C13_DoneDetection ==
  queue # Null => (Done <=> (Len(queue[1]) = 0 /\ afterCursor = Null))

C13_Witness == Quiet /\ queue = Some(<<>>) /\ afterCursor # Null /\ ~Done

\* C14: from a fresh load, a user who keeps skipping or trashing the current
\* photo whenever the screen is idle reaches the done screen, an empty buffer
\* and no cursor, with the position at the number of photos swiped: the
\* screen is done at last, and the position never passes the number of photos
\* of the camera roll on the way.  Within SwipeDepth swipes every camera roll
\* of the model is walked more than once.
C14_EventuallyDone == <>Done /\ [](pos <= total)

\* C15: when the page fetch inside skip, trash, jump or the automatic refill
\* fails, position, buffer and cursor after the handler are what they were
\* before it.
C15_FetchFailureClean ==
  (/\ tasks = <<>>
   /\ ended.cause = "fetch"
   /\ ended.kind \in {"skip", "trash", "jump", "refill"}) =>
    qstate = ended.pre[1]

C15_Witness ==
  /\ tasks = <<>> /\ ended.cause = "fetch" /\ ended.kind = "trash"
  /\ pos = 1 /\ Len(queue[1]) > 1

\* the progress record that persistProgress writes for the state on the screen
Persisted ==
  /\ kPos = Some(pos)
  /\ kQueue = Some(SliceTo(queue[1], MAX_QUEUE_PERSIST))
  /\ kAfter = afterCursor

\* C16: when the progress write of skip, trash, undo or jump fails, the
\* handler does not leave position, buffer and cursor on the screen as a state
\* that differs from the persisted record.
C16_WriteFailure ==
  (/\ tasks = <<>>
   /\ ended.cause = "write"
   /\ ended.kind \in {"skip", "trash", "undo", "jump"}) => Persisted

\* C17: the progress record is committed atomically: at every instant, a kill
\* of the process between two key writes of a commit included, the stored
\* position, buffer and cursor belong to one committed state, the one before
\* the commit or the one it wrote.
C17_AtomicCommit ==
  \A i \in 1..Len(tasks) :
    (ended.kind = "kill" /\ tasks[i].pc = "lRead") =>
      \/ progress = ended.pre[1]
      \/ progress = ended.post[1]

\* C18: whenever a handler that changes the queue has ended without an error
\* and the screen is idle, the stored position and cursor are the ones on the
\* screen and the stored buffer is the first MAX_QUEUE_PERSIST photos of the
\* buffer on the screen.
C18_WriteThrough == (Quiet /\ queue # Null) => Persisted

C18_Witness ==
  /\ Quiet /\ queue # Null /\ Len(queue[1]) > MAX_QUEUE_PERSIST
  /\ Persisted

\* the loadInitial of a restart, just past its commit
AtRestart ==
  {i \in 1..Len(tasks) : /\ tasks[i].kind = "load" /\ tasks[i].via = "restart"
                         /\ tasks[i].pc = "persist"}

\* the photos of the camera roll that are not in the trash set
Untrashed == {x \in 1..total : x \notin kTrash}

\* the current photo is the first photo of the camera roll that is not in the
\* trash set, or the screen is done if there is none
FirstUntrashed ==
  IF Untrashed = {} THEN Done
  ELSE /\ CurrentUri(queue) # Null
       /\ \A x \in Untrashed : CurrentUri(queue)[1] <= x

\* C19 as claimed: after a restart the position is 0, the history is empty,
\* and the current photo is the first photo of the camera roll that is not in
\* the trash set, or the screen is done if there is none.
C19_RestartAsClaimed ==
  \A i \in AtRestart : pos = 0 /\ history = <<>> /\ FirstUntrashed

\* C19: after a restart the position is 0 and the history is empty; the
\* current photo, when there is one, is the first photo of the camera roll
\* that is not in the trash set; the screen is done only if there is none;
\* and otherwise the buffer is empty with a cursor left, from which the
\* automatic refill goes on until the idle screen at position 0 shows the
\* first photo that is not in the trash set, or is done.
C19_RestartResult ==
  /\ \A i \in AtRestart :
       /\ pos = 0 /\ history = <<>>
       /\ IF CurrentUri(queue) # Null
          THEN /\ CurrentUri(queue)[1] \in Untrashed
               /\ \A x \in Untrashed : CurrentUri(queue)[1] <= x
          ELSE Done => Untrashed = {}
  /\ (Quiet /\ Settled /\ queue # Null /\ pos = 0 /\ history = <<>>) =>
       FirstUntrashed

C19_Witness ==
  \E i \in AtRestart : kTrash = {1} /\ CurrentUri(queue) = Some(2) /\ total = 3

\* a restart is in flight among the handlers ts: its onPress, or the
\* loadInitial it calls
InRestart(ts) ==
  \E i \in 1..Len(ts) :
    ts[i].kind = "restart" \/ (ts[i].kind = "load" /\ ts[i].via = "restart")

\* C20: no step of a restart, from the Restart button of the alert to the end
\* of its loadInitial or to its failure, changes the trash set or the cached
\* total and its timestamp.
C20_RestartFrame ==
  [][(InRestart(tasks) \/ InRestart(tasks')) => UNCHANGED <<kTrash, cache>>]_vars

C20_Witness ==
  /\ tasks = <<>> /\ ended.kind = "restart" /\ ended.cause = "fetch"
  /\ kTrash # {} /\ kTotal # Null

\* the retry of a load that failed, whether called by the mount effect, the
\* Reload button, the alert of restartFromBeginning or the Retry button: the
\* retry just past its commit, before the automatic refill takes the buffer
\* it left
AtRetry ==
  {i \in 1..Len(tasks) : /\ Len(tasks) = 1
                         /\ tasks[i].kind = "load" /\ tasks[i].via = "retry"
                         /\ tasks[i].pc = "persist"
                         /\ ended.cause = "fetch"
                         /\ ended.kind \in {"mount", "reload", "restart",
                                             "retry"}}

\* C21: when a page fetch fails inside loadInitial, at the start, on reload,
\* on retry or inside a restart, the position, buffer and cursor on the screen
\* and the stored progress record are what they were when loadInitial was
\* called, the error screen is up, and the retry that goes well commits what
\* a load that went well at once would have committed from that record.
C21_LoadFailure ==
  /\ (tasks = <<>> /\ ended.cause = "fetch"
        /\ ended.kind \in {"mount", "reload", "restart", "retry"}) =>
       /\ qstate = ended.pre[1]
       /\ progress = ended.was[1]
       /\ err # Null
  /\ \A i \in AtRetry : qstate = LoadOutcome(ended.was[1], kTrash)

C21_Witness ==
  \E i \in AtRetry :
    ended.kind = "restart" /\ ended.pre[1][1] > 0 /\ pos = 0 /\ kTrash # {}

\* C22: once the screen is unmounted with a fetch in flight, what the fetch
\* returns is not written to the stored progress record: the record stays as
\* it was at the unmount.  (A setter called on the unmounted screen changes
\* nothing a user can see: the claim's in-memory half holds of React.)
C22_StaleDiscarded ==
  (~mounted /\ ended.kind = "unmount") => progress = ended.was[1]

\* C28: a start from a stored record of position p, buffer B and cursor c
\* commits position p and a buffer that begins with B less the photos in the
\* trash set, in order; with a cursor c the photos behind those are photos
\* the camera roll returns after c, also when nothing of B is left.
C28_ColdStartResume ==
  \A i \in AtCommit("load") :
    LET rec == tasks[i].old[1]
        B == Filter(GetStringArray(rec[2]), kTrash)
    IN (Len(tasks) = 1 /\ tasks[i].via = "mount" /\ rec[1] # Null) =>
         /\ pos = rec[1][1]
         /\ Len(queue[1]) >= Len(B) /\ SliceTo(queue[1], Len(B)) = B
         /\ rec[3] # Null =>
              \A k \in (Len(B) + 1)..Len(queue[1]) : queue[1][k] > rec[3][1]

\* C23: loadTotalCountFromCacheOrCompute shows the cached total at once
\* whenever one is stored, and starts countAllPhotos if and only if no total
\* is stored or the stored one is not fresh, fresh meaning now - ts < ONE_DAY:
\* an entry exactly ONE_DAY old is counted again, a fresh one never.
C23_StalenessGating ==
  [][(count.pc = "ts" /\ count'.pc \in {"fetch", "done"}) =>
       LET fresh == /\ kTotal # Null /\ kTotalTs # Null
                    /\ now - kTotalTs[1] < ONE_DAY
       IN /\ kTotal # Null => totalCount' = kTotal
          /\ count'.pc = "fetch" <=> ~fresh]_vars

\* C24: when getPhotos fails on any page of countAllPhotos, the cached total
\* and its timestamp in the storage and the total on the screen are what they
\* were when countAllPhotos was called, and the screen shows no error.
C24_CountFailureSilent ==
  count.pc = "failed" =>
    /\ <<kTotal, kTotalTs, totalCount>> = count.pre[1]
    /\ err = Null

C24_Witness ==
  /\ count.pc = "failed" /\ count.sum > 0
  /\ kTotal # Null /\ totalCount = kTotal /\ now - kTotalTs[1] > ONE_DAY

\* C25: a photo leaves the device only in the step that follows the Delete
\* button of an alert of TrashScreen, and only if it is one of the photos the
\* alert asked about and is in the trash set; on this screen the trash set
\* changes only by the photo that trashCurrent adds, and trashCurrent deletes
\* nothing.
C25_SoftDelete ==
  [][/\ deleted' # deleted =>
          /\ trashView.pc = "deleting"
          /\ deleted' \ deleted \subseteq trashView.uris
          /\ deleted' \ deleted \subseteq kTrash
     /\ (kTrash' # kTrash /\ ~trashView.open) =>
          \E i \in 1..Len(tasks) :
            /\ tasks[i].kind = "trash" /\ tasks[i].pc = "addRead"
            /\ kTrash' = kTrash \cup {tasks[i].uri}
            /\ deleted' = deleted]_vars

C25_Witness ==
  /\ deleted = {1} /\ kTrash = {2} /\ ~trashView.open
  /\ Quiet /\ queue = Some(<<3>>)

\* the handlers just past the commit of what their call of
\* refillQueueIfNeeded returned, with no other handler about
AtRefilled ==
  {i \in 1..Len(tasks) : /\ Len(tasks) = 1 /\ tasks[i].pc = "persist"
                         /\ tasks[i].rin # Null}

\* C26: a call of refillQueueIfNeeded with a buffer of MIN_QUEUE_BEFORE_REFILL
\* photos or more fetches no page and returns the buffer and the cursor it was
\* given; any other call fetches exactly one page, also when what it returns
\* is still short and pages are left.
C26_RefillPolicy ==
  /\ \A i \in 1..Len(tasks) : tasks[i].rn <= 1
  /\ \A i \in AtRefilled :
       LET given == tasks[i].rin[1]
       IN IF Len(given[1]) >= MIN_QUEUE_BEFORE_REFILL
          THEN /\ tasks[i].rn = 0
               /\ queue = Some(given[1]) /\ afterCursor = given[2]
          ELSE tasks[i].rn = 1

C26_Witness ==
  \E i \in AtRefilled :
    /\ tasks[i].rn = 1
    /\ Len(queue[1]) < MIN_QUEUE_BEFORE_REFILL /\ afterCursor # Null

\* C27: once the camera roll has reported its last page and the cursor is
\* null, a call of refillQueueIfNeeded with that cursor returns a null cursor
\* and the buffer it was given, with no photo added, however short it is.
C27_ExhaustedCursor ==
  \A i \in AtRefilled :
    tasks[i].rin[1][2] = Null =>
      afterCursor = Null /\ queue = Some(tasks[i].rin[1][1])

\* C29: skipCurrent or trashCurrent called while the buffer is empty changes
\* nothing: position, buffer, cursor, trash set, undo history and stored
\* progress stay as they are, and the call starts no handler, so no fetch.
C29_EmptyAdvanceNoOp ==
  [][(/\ queue = Some(<<>>)
      /\ \E j \in 1..Len(pending) : /\ pending[j].kind \in {"skip", "trash"}
                                     /\ pending' = Drop(j))
       => UNCHANGED <<qstate, kTrash, history, progress, tasks>>]_vars

\* C30: undoLast on a skip entry of photo x puts the position one lower, not
\* below 0, makes x the first photo of the buffer with the photos that were
\* there behind it in their order, leaves the cursor and the trash set as
\* they are and takes exactly the newest entry off the undo history.
C30_UndoOfSkip ==
  [][(/\ CanUndo /\ history[1].kind = "skip"
      /\ Len(tasks') = Len(tasks) + 1
      /\ tasks'[Len(tasks')].kind = "undo")
       => /\ pos' = Max(0, pos - 1)
          /\ queue' = Some(<<history[1].uri>> \o queue[1])
          /\ afterCursor' = afterCursor
          /\ kTrash' = kTrash
          /\ history' = Tail(history)
          /\ tasks'[Len(tasks')].pc = "persist"]_vars

C30_Witness ==
  \E i \in AtCommit("undo") :
    /\ tasks[i].entry = "skip" /\ tasks[i].pos0 = 2 /\ pos = 1
    /\ Len(queue[1]) > 1 /\ queue[1][1] = tasks[i].uri /\ history # <<>>

\* C31: while busy is set or the undo history is empty, no touch on Undo
\* starts undoLast: no step begins an undo, so position, buffer, cursor,
\* trash set, history and stored progress are changed by no undo.
C31_UndoNoOp ==
  [][(busy \/ history = <<>>)
       => /\ Len(SelectSeq(tasks', LAMBDA t : t.kind = "undo"))
               <= Len(SelectSeq(tasks, LAMBDA t : t.kind = "undo"))
          /\ (tasks' = tasks /\ pending' = pending)
               => UNCHANGED <<qstate, kTrash, history, progress>>]_vars

C31_Witness ==
  /\ Front /\ err = Null /\ queue # Null
  /\ busy /\ history # <<>>
  /\ \E i \in 1..Len(tasks) : tasks[i].kind \in {"skip", "trash"}

\* a step of loadTotalCountFromCacheOrCompute
CountMoves == count.pc \in {"cached", "ts", "fetch", "written"} /\ count' # count

\* what the refresh leaves alone
C32_Frame ==
  [][CountMoves => UNCHANGED <<qstate, kTrash, history, busy, progress, tasks,
                               pending, err, refillingRef>>]_vars

\* C32 as stated: the refresh changes neither position, buffer, cursor, trash
\* set, undo history nor busy, and the queue operations go as if it had not
\* run: totalCount would then still be null, and jumpToNth would take every
\* whole number from 1 on.
C32_AsIfNoRefresh ==
  /\ C32_Frame
  /\ [](CanPress => \A text \in JumpTexts :
                      (~JumpInvalid(text) /\ Number(text).value >= 1)
                         => ~JumpOutOfRange(text, jumpSeen))

\* C32: the refresh changes neither position, buffer, cursor, trash set, undo
\* history, busy nor the stored progress, and it starts, ends and fails no
\* handler.  The one thing it sets that a queue operation reads is
\* totalCount: jumpToNth refuses a whole number from 1 on only if it is above
\* the total the refresh has shown.
C32_RefreshDisjoint ==
  /\ C32_Frame
  /\ [](CanPress => \A text \in JumpTexts :
                      (/\ ~JumpInvalid(text) /\ Number(text).value >= 1
                       /\ JumpOutOfRange(text, jumpSeen))
                         => /\ count.pc \notin {"none", "cached"}
                            /\ jumpSeen = Some(total))

C32_Witness ==
  /\ count.pc = "fetch" /\ count.after # Null
  /\ \E i \in 1..Len(tasks) : tasks[i].kind = "trash" /\ tasks[i].pc = "refillFetch"
  /\ busy /\ history # <<>> /\ pos > 0

\* C33: trashCurrent takes the photo x that is first in the buffer when it
\* starts: it pushes a trash entry of x on the history, its addToTrash adds x
\* to the trash set and neither adds nor removes another photo, and what it
\* hands to refillQueueIfNeeded and commits is the buffer without its first
\* photo, which is still x.
C33_TrashTargetsCurrent ==
  [][\A i \in 1..Len(tasks') :
       tasks'[i].kind = "trash" =>
         LET t == tasks'[i]
             old == i <= Len(tasks) /\ tasks[i].kind = "trash"
         IN /\ ~old => /\ t.uri = queue[1][1]
                        /\ history' = PushHistory(history,
                                          [kind |-> "trash", uri |-> t.uri])
                        /\ kTrash' = kTrash /\ qstate' = qstate
            /\ (old /\ tasks[i].pc = "addRead" /\ t.pc # "addRead")
                 => /\ kTrash' = kTrash \cup {t.uri}
                    /\ t.uri = queue[1][1] /\ qstate' = qstate
            /\ (old /\ tasks[i].pc # "addRead") => kTrash' = kTrash
            /\ (old /\ tasks[i].pc = "tCount" /\ t.pc # "tCount")
                 => /\ t.uri = queue[1][1] /\ history[1].uri = t.uri
                    /\ t.rin = Some(<<Tail(queue[1]), afterCursor>>)
                    /\ t.pc = "persist" => /\ queue' = Some(Tail(queue[1]))
                                           /\ pos' = pos + 1
            /\ old => history' = history]_vars

C33_Witness ==
  \E i \in AtCommit("trash") :
    /\ tasks[i].rn = 0 /\ tasks[i].rin[1][1] = queue[1] /\ queue[1] # <<>>
    /\ tasks[i].uri \in kTrash /\ kTrash # {tasks[i].uri}
    /\ history[1] = [kind |-> "trash", uri |-> tasks[i].uri]

\* C34: on the idle screen the undo history is no longer than the position,
\* and the photo of its newest entry has left the front of the buffer with
\* the commit of its swipe, also after a handler was left by a failed fetch.
C34_HistoryBacked ==
  (Quiet /\ queue # Null /\ err = Null) =>
     /\ Len(history) <= pos
     /\ (history # <<>> /\ ended.cause = "fetch")
          => CurrentUri(queue) # Some(history[1].uri)

\* C35: when a trashCurrent was left by a failed fetch or a failed write of
\* the progress, the photo that is first in the buffer is not in the trash
\* set: the trash set and the buffer have both moved or neither has.
C35_FailedTrashNoTrace ==
  (tasks = <<>> /\ ended.kind = "trash" /\ ended.cause \in {"fetch", "write"}
     /\ CurrentUri(queue) # Null)
    => queue[1][1] \notin kTrash

\* C36: when loadInitial (at the start, on Reload, inside a restart) or the
\* handler of a jump ends without a failure, the undo history is empty, so
\* the Undo buttons are disabled on the screen that follows.
C36_NoHistoryAfterRebuild ==
  [][\A i \in 1..Len(tasks) :
       (tasks[i].kind \in {"load", "jump"} /\ tasks' = Remove(i))
          => history' = <<>> /\ ~CanUndo']_vars

C36_Witness ==
  \E i \in AtCommit("jump") :
    history = <<>> /\ kTrash # {} /\ pos > 0 /\ CurrentUri(queue) # Null

\* C37: the buffer never holds more photos than a refilled buffer and a full
\* undo history give together, low-water mark - 1 + page size + undo
\* capacity, which is what keeps it within MAX_QUEUE_PERSIST in the source.
C37_BufferBound ==
  queue # Null =>
    Len(queue[1]) <= MIN_QUEUE_BEFORE_REFILL - 1 + PAGE_SIZE + HISTORY_LIMIT

\* the idle screen with an empty buffer and pages left
EmptyWithCursor ==
  /\ tasks = <<>> /\ ~busy
  /\ queue # Null /\ CurrentUri(queue) = Null /\ afterCursor # Null

\* C38: from the idle screen with an empty buffer and a cursor the effect
\* starts a refill, and with no touch of the user the screen comes to show a
\* photo or to the done screen.
C38_NoStuckEmptyBuffer ==
  /\ EmptyWithCursor ~> (\E i \in 1..Len(tasks) : tasks[i].kind = "refill")
  /\ EmptyWithCursor ~> (tasks = <<>> /\ (CurrentUri(queue) # Null \/ Done))

C38_Witness ==
  \E i \in AtCommit("refill") :
    /\ tasks[i].rin = Some(<<<<>>, Some(1)>>) /\ tasks[i].rn = 1
    /\ queue = Some(<<2>>) /\ kTrash = {1, 3}

\* C39: busy, once set by skip, trash, undo, jump, restart or the automatic
\* refill, is cleared again, whether the requests of the handler are
\* answered or rejected; the loop of rebuildStateAtPos comes to an end.
C39_BusyReleased ==
  /\ busy ~> ~busy
  /\ (\E i \in 1..Len(tasks) : tasks[i].kind = "jump")
        ~> (\A i \in 1..Len(tasks) : tasks[i].kind # "jump")

C39_Witness ==
  /\ tasks = <<>> /\ ~busy
  /\ ended.kind = "jump" /\ ended.cause = "write" /\ notice = "Jump failed"

\* C40: when addToTrash(x) of a trash swipe and removeFromTrash(y) of a
\* recover or of deleteOneNow, with y other than x, have both written the
\* trash set, whatever the order of their reads and writes, the set holds x
\* and does not hold y.
C40_NoLostTrashUpdate ==
  \A i \in 1..Len(tasks) :
    (/\ tasks[i].kind = "trash" /\ tasks[i].pc = "addWritten"
     /\ trashView.pc = "written" /\ ~trashView.all
     /\ tasks[i].uri \notin trashView.uris)
      => /\ tasks[i].uri \in kTrash
         /\ trashView.uris \cap kTrash = {}

====
